---- MODULE Spec2Model ----
(***************************************************************************)
(* A model of coral (src/src/coral/__init__.py): the Node tree with        *)
(* ancestor-delegating attribute lookup, the two attribute resolution      *)
(* visitors run by CompositeNodeVisitor, and NodeGenerator._render with    *)
(* its coral-to file writes.                                               *)
(*                                                                         *)
(* Text is a sequence of parts.  A part [k |-> "lit", v |-> s] is the      *)
(* literal text s; [k |-> "ref", v |-> a] is the source text               *)
(* "{{ node.a }}"; [k |-> "kids"] is the source text of the loop           *)
(* "{% for child in node.children %}{{ render(child) }}{% endfor %}".      *)
(* Rendering a text as a template evaluates its ref and kids parts; text   *)
(* that is only stored or written keeps them as they are.                  *)
(***************************************************************************)
EXTENDS Integers, Sequences, FiniteSets, TLC

VARIABLES
    children,    \* Node.children: node -> sequence of child nodes
    parent,      \* Node.parent: node -> parent node, 0 for None
    attributes,  \* Node.attributes: node -> sequence of [key, val] (a dict, in insertion order)
    built,       \* history: the attributes as the builder made them
    templates,   \* NodeGenerator.templates: tag -> inline template text
    given,       \* history: the templates argument of NodeGenerator
    j2,          \* the {tag}.j2 files found on the template search path: tag -> text
    yaml,        \* the {tag}.yaml files: directory index -> (tag -> list of mappings)
    phase,       \* "resolve" (the visitors run), "ready", "render", "done", "failed";
                 \* "raised" when the constructor ended with an error of a visit;
                 \* "visited" when a traversal run on its own has returned
    vidx,        \* CompositeNodeVisitor.traverse: index of the running visitor
    todo,        \* NodeVisitor.traverse: the nodes still to traverse, next first
    visitLog,    \* history: the visits made, in order, as [v, n]
    stack,       \* the active _render calls, innermost last
    ret,         \* history: node -> the text its _render call returned
    used,        \* history: node -> [src, tpl], the template its _render call resolved
    writes,      \* history: the file writes made, in order, as [n, path, text]
    files,       \* the file system under the coral-to paths: path -> content
    result,      \* what generate() returned, as <<text>>; <<>> while it has not returned
    failNode,    \* the node whose template was not found, 0 if none
    missed       \* history: <<n, k>> looked up by a template with no node defining k

vars == <<children, parent, attributes, built, templates, given, j2, yaml, phase, vidx, todo,
          visitLog, stack, ret, used, writes, files, result, failNode, missed>>

treeVars == <<children, parent, built>>
envVars == <<j2, yaml, given>>
renderVars == <<stack, ret, used, writes, files, result, failNode, missed>>

(***************************************************************************)
(* Bounds.                                                                 *)
(***************************************************************************)
MaxNodes == 3       \* nodes of a tree in the rendering scenarios
MaxYamlNodes == 2   \* nodes of a tree in the attribute file scenarios
NumDirs == 2        \* directories of the search path
MaxWalkNodes == 4   \* nodes of a tree in the traversal scenarios

Dirs == 1..NumDirs

(***************************************************************************)
(* Text and values.                                                        *)
(***************************************************************************)
Lit(s) == [k |-> "lit", v |-> s]
Ref(a) == [k |-> "ref", v |-> a]
Kids == [k |-> "kids", v |-> ""]

Str(t) == [str |-> TRUE, parts |-> t]     \* a str value with text t
NonStr(t) == [str |-> FALSE, parts |-> t] \* an int or None, printed as t
Pair(key, val) == [key |-> key, val |-> val]

\* The names ordinary attribute lookup finds on a Node object before
\* __getattr__ is consulted: the fields set by Node.__init__ (the names the
\* class defines, such as __str__, behave alike and are not used as keys here).
FieldNames == {"attributes", "children", "parent"}

(***************************************************************************)
(* dict operations on an attribute list.                                   *)
(***************************************************************************)
HasKey(al, key) == \E i \in 1..Len(al) : al[i].key = key

ValOf(al, key) == al[CHOOSE i \in 1..Len(al) : al[i].key = key].val

SetKey(al, key, val) ==
    IF HasKey(al, key)
    THEN [i \in 1..Len(al) |-> IF al[i].key = key THEN Pair(key, val) ELSE al[i]]
    ELSE Append(al, Pair(key, val))

RECURSIVE DictUpdate(_, _)
DictUpdate(al, m) ==
    IF m = <<>> THEN al
    ELSE DictUpdate(SetKey(al, Head(m).key, Head(m).val), Tail(m))

(***************************************************************************)
(* Node.__getattr__, reached by getattr(node, key).                        *)
(***************************************************************************)
RECURSIVE NodeGetattr(_, _, _, _)
NodeGetattr(A, P, n, key) ==
    IF HasKey(A[n], key) THEN [kind |-> "attr", val |-> ValOf(A[n], key)]
    ELSE IF P[n] # 0 THEN NodeGetattr(A, P, P[n], key)
    ELSE [kind |-> "error", val |-> Str(<<Lit(key)>>)]

\* getattr(node, key): the object's fields shadow __getattr__.
GetAttrIn(A, P, n, key) ==
    IF key \in FieldNames THEN [kind |-> "field", val |-> NonStr(<<Lit(key)>>)]
    ELSE NodeGetattr(A, P, n, key)

GetAttr(n, key) == GetAttrIn(attributes, parent, n, key)

\* What "{{ node.key }}" prints: jinja2's Environment.getattr catches the
\* AttributeError and yields Undefined, which prints as the empty text.
NodeAttrText(A, P, n, key) ==
    LET r == GetAttrIn(A, P, n, key)
    IN IF r.kind = "error" THEN <<>> ELSE r.val.parts

\* TemplateEngine.render_from_string on a text without loops.
RECURSIVE RenderString(_, _, _, _)
RenderString(A, P, n, t) ==
    IF t = <<>> THEN <<>>
    ELSE (IF Head(t).k = "ref" THEN NodeAttrText(A, P, n, Head(t).v) ELSE <<Head(t)>>)
         \o RenderString(A, P, n, Tail(t))

\* node.tag as a tag name ("?", a tag no template or file carries, when the
\* value is not one plain name; the builder gives every node its own tag).
TagName(A, P, n) ==
    LET r == GetAttrIn(A, P, n, "tag")
    IN IF r.kind = "attr" /\ Len(r.val.parts) = 1 /\ r.val.parts[1].k = "lit"
       THEN r.val.parts[1].v ELSE "?"

(***************************************************************************)
(* NodeAttributesRenderereVisitor.visit: every str attribute, in dict      *)
(* order, is replaced by its rendering against the node as it is then.     *)
(***************************************************************************)
RECURSIVE InlineFrom(_, _, _, _)
InlineFrom(A, P, n, i) ==
    IF i > Len(A[n]) THEN A
    ELSE InlineFrom(
            IF A[n][i].val.str
            THEN [A EXCEPT ![n][i].val.parts = RenderString(A, P, n, A[n][i].val.parts)]
            ELSE A,
            P, n, i + 1)

\* A visit that renders the node's attributes and then renders the results.
InlineVisitTwice(A, P, n) == InlineFrom(InlineFrom(A, P, n, 1), P, n, 1)

InlineVisit(A, P, n) == InlineFrom(A, P, n, 1)

(***************************************************************************)
(* YamlAttributeVisitor.visit.                                             *)
(***************************************************************************)
NumTokens == {"37", "200", "5"}

\* The pieces of text that end with a colon.
ColonEnded == {"c:"}

\* A rendered scalar that is YAML syntax where a value is expected: one that
\* ends with a colon ("mapping values are not allowed here") or is "?"
\* alone ("mapping keys are not allowed here").  yaml.safe_load raises
\* ScannerError for the file.
YamlBroken(t) ==
    /\ t # <<>>
    /\ \/ t[Len(t)].k = "lit" /\ t[Len(t)].v \in ColonEnded
       \/ t = <<[k |-> "lit", v |-> "?"]>>

\* yaml.safe_load of one rendered scalar of a file that parses: nothing is
\* None, digits are an int, any other text is a str.
YamlScalar(t) ==
    IF t = <<>> THEN NonStr(<<Lit("None")>>)
    ELSE IF \A i \in 1..Len(t) : t[i].k = "lit" /\ t[i].v \in NumTokens THEN NonStr(t)
    ELSE Str(t)

\* One mapping of the file: rendered against the node, then parsed.
LoadMapping(A, P, n, m) ==
    [i \in 1..Len(m) |-> Pair(m[i].key, YamlScalar(RenderString(A, P, n, m[i].val)))]

\* The whole file is rendered and parsed before anything is merged.
LoadYaml(A, P, n, content) ==
    [i \in 1..Len(content) |-> LoadMapping(A, P, n, content[i])]

\* A merge in which the first mapping that defines a key wins.
RECURSIVE UpdateAllFirstWins(_, _)
UpdateAllFirstWins(al, data) ==
    IF data = <<>> THEN al
    ELSE DictUpdate(UpdateAllFirstWins(al, Tail(data)), Head(data))

RECURSIVE UpdateAll(_, _)
UpdateAll(al, data) ==
    IF data = <<>> THEN al ELSE UpdateAll(DictUpdate(al, Head(data)), Tail(data))

\* The directories holding {tag}.yaml.
DirsWith(Y, tag) == {d \in Dirs : tag \in DOMAIN Y[d]}

\* A scan that lets the last directory holding the file win.
MatchDirLast(Y, tag) ==
    IF DirsWith(Y, tag) = {} THEN 0
    ELSE CHOOSE d \in DirsWith(Y, tag) : \A e \in DirsWith(Y, tag) : d >= e

\* The directory the loop stops at (break), 0 when it runs to its end.
MatchDir(Y, tag) ==
    IF DirsWith(Y, tag) = {} THEN 0
    ELSE CHOOSE d \in DirsWith(Y, tag) : \A e \in DirsWith(Y, tag) : d <= e

\* The matched file, rendered against the node, does not parse: the visit
\* raises before anything is merged.
YamlRaises(A, P, Y, n) ==
    LET tag == TagName(A, P, n)
        d == MatchDir(Y, tag)
    IN /\ d # 0
       /\ \E i \in 1..Len(Y[d][tag]) : \E j \in 1..Len(Y[d][tag][i]) :
             YamlBroken(RenderString(A, P, n, Y[d][tag][i][j].val))

YamlVisit(A, P, Y, n) ==
    LET tag == TagName(A, P, n)
        d == MatchDir(Y, tag)
    IN IF d = 0 THEN A
       ELSE [A EXCEPT ![n] = UpdateAll(@, LoadYaml(A, P, n, Y[d][tag]))]

(***************************************************************************)
(* NodeGenerator: templates and template resolution.                       *)
(***************************************************************************)
EmptyMap == [x \in {} |-> <<>>]

\* The built-in template of tag void: render each child, nothing between.
VoidTemplate == <<Kids>>

\* A registration that keeps a void template the caller supplied.
RegisterVoidIfAbsent(T) ==
    [t \in DOMAIN T \cup {"void"} |-> IF t \in DOMAIN T THEN T[t] ELSE VoidTemplate]

\* NodeGenerator.__init__, after the visitors ran: self.templates["void"] = ...
RegisterVoid(T) ==
    [t \in DOMAIN T \cup {"void"} |-> IF t = "void" THEN VoidTemplate ELSE T[t]]

\* A resolution that prefers the file template.
ResolveFileFirst(T, J, tag) ==
    IF tag \in DOMAIN J THEN [src |-> "file", tpl |-> J[tag]]
    ELSE IF tag \in DOMAIN T THEN [src |-> "inline", tpl |-> T[tag]]
    ELSE [src |-> "none", tpl |-> <<>>]

\* _render: self.templates.get(node.tag), else the file {tag}.j2, else
\* jinja2 raises TemplateNotFound.
ResolveTemplate(T, J, tag) ==
    IF tag \in DOMAIN T THEN [src |-> "inline", tpl |-> T[tag]]
    ELSE IF tag \in DOMAIN J THEN [src |-> "file", tpl |-> J[tag]]
    ELSE [src |-> "none", tpl |-> <<>>]

\* A loop that renders the children last first.
LoopChildrenReversed(n) ==
    [i \in 1..Len(children[n]) |-> children[n][Len(children[n]) + 1 - i]]

\* The children a template's loop over node.children renders, in order.
LoopChildren(n) == children[n]

\* A write that refuses to replace a file that is already there.
WriteTextKeepExisting(F, path, text) ==
    [p \in DOMAIN F \cup {path} |-> IF p \in DOMAIN F THEN F[p] ELSE text]

\* Path.write_text: the file is created or overwritten.
WriteText(F, path, text) ==
    [p \in DOMAIN F \cup {path} |-> IF p = path THEN text ELSE F[p]]

\* A fresh _render call on node n.
NewFrame(n) == [n |-> n, st |-> "called", rest |-> <<>>, ci |-> 0, out |-> <<>>]

Top == stack[Len(stack)]

SetTop(f) == [stack EXCEPT ![Len(stack)] = f]

(***************************************************************************)
(* Trees as the builders make them.                                        *)
(***************************************************************************)
\* Parent vectors of the ordered trees on nodes 1..N with root 1.
Shapes(N) ==
    {pa \in [1..N -> 0..N] :
        /\ pa[1] = 0
        /\ \A i \in 2..N : pa[i] >= 1 /\ pa[i] < i}

ChildrenOf(pa, N) ==
    [n \in 1..N |-> SelectSeq([i \in 1..N |-> i], LAMBDA c : pa[c] = n)]

\* A constructor that leaves every node's parent None.
ParentNeverSet(ch, c) == 0

\* Node.__init__: each child's parent is set to the node; a node nobody
\* adopted keeps parent None.
ParentFrom(ch, c) ==
    IF \E n \in DOMAIN ch : \E i \in 1..Len(ch[n]) : ch[n][i] = c
    THEN CHOOSE n \in DOMAIN ch : \E i \in 1..Len(ch[n]) : ch[n][i] = c
    ELSE 0

\* XmlNodeBuilder.build: {**element.attrib, "tag": ..., "text": ...}.
XmlAttributes(tag, attrib) ==
    SetKey(SetKey(attrib, "tag", Str(<<Lit(tag)>>)), "text", Str(<<>>))

Root == 1
Nodes == DOMAIN children

(***************************************************************************)
(* The inputs.                                                             *)
(***************************************************************************)
PathByName == <<Ref("name"), Lit(".txt")>>

RenderKinds ==
    { [tag |-> "void", attrib |-> <<>>],
      [tag |-> "team", attrib |-> <<Pair("name", Str(<<Ref("tag"), Lit("2")>>)),
                                    Pair("coral-to", Str(PathByName))>>],
      [tag |-> "team", attrib |-> <<Pair("coral-to", Str(PathByName))>>],
      [tag |-> "player", attrib |-> <<Pair("name", Str(<<Lit("n3")>>)),
                                      Pair("parent", Str(<<Lit("x")>>)),
                                      Pair("coral-to", Str(<<Lit(".txt")>>))>>] }

TeamInline == <<Lit("T["), Ref("name"), Kids, Lit("]")>>
TeamFile == <<Lit("team:"), Ref("name"), Kids>>
PlayerInline == <<Lit("P:"), Ref("name"), Ref("age")>>
PlayerFile == <<Lit("player:"), Ref("name")>>

\* The templates argument: none, team and void, team and player.
InlineNone == EmptyMap
InlineTeamVoid == [t \in {"team", "void"} |-> IF t = "team" THEN TeamInline ELSE <<Lit("V")>>]
InlineTeamPlayer == [t \in {"team", "player"} |-> IF t = "team" THEN TeamInline ELSE PlayerInline]

\* The .j2 files on the search path: team and player, team and void.
FilesTeamPlayer == [t \in {"team", "player"} |-> IF t = "team" THEN TeamFile ELSE PlayerFile]
FilesTeamVoid == [t \in {"team", "void"} |-> IF t = "team" THEN TeamFile ELSE <<Lit("F")>>]

\* The pairs of templates argument and template files tried.
TemplateOptions ==
    { <<InlineNone, FilesTeamPlayer>>,
      <<InlineTeamVoid, FilesTeamPlayer>>,
      <<InlineTeamVoid, FilesTeamVoid>>,
      <<InlineTeamPlayer, FilesTeamPlayer>> }

YamlKinds ==
    { [tag |-> "team", attrib |-> <<Pair("name", Str(<<Lit("n1")>>))>>],
      [tag |-> "player", attrib |-> <<Pair("name", Str(<<Lit("n3")>>))>>],
      [tag |-> "player", attrib |-> <<Pair("age", Str(<<Lit("5")>>)),
                                      Pair("nick", Str(<<Ref("name"), Lit("!")>>))>>] }

YamlA == << <<Pair("age", <<Lit("37")>>)>> >>
YamlB == << <<Pair("age", <<Lit("200")>>), Pair("nick", <<Ref("name"), Lit("?")>>)>>,
            <<Pair("age", <<Ref("age")>>), Pair("city", <<Lit("c:"), Ref("nick")>>)>> >>
YamlEmpty == <<>>

YamlDirOptions ==
    { EmptyMap } \cup { [t \in {"player"} |-> c] : c \in {YamlA, YamlB, YamlEmpty} }

NoYaml == [d \in Dirs |-> EmptyMap]

\* A tree of N nodes with the attributes attrs, before any visitor has run.
SetupTree(N, pa, attrs, T, J, Y) ==
    /\ children = ChildrenOf(pa, N)
    /\ parent = [c \in 1..N |-> ParentFrom(ChildrenOf(pa, N), c)]
    /\ attributes = attrs
    /\ built = attrs
    /\ templates = T
    /\ given = T
    /\ j2 = J
    /\ yaml = Y
    /\ phase = "resolve"
    /\ vidx = 1
    /\ todo = <<Root>>
    /\ visitLog = <<>>
    /\ stack = <<>>
    /\ ret = EmptyMap
    /\ used = EmptyMap
    /\ writes = <<>>
    /\ files = EmptyMap
    /\ result = <<>>
    /\ failNode = 0
    /\ missed = {}

\* The tree XmlNodeBuilder makes of a document.
Setup(N, pa, kinds, T, J, Y) ==
    SetupTree(N, pa, [n \in 1..N |-> XmlAttributes(kinds[n].tag, kinds[n].attrib)], T, J, Y)

InitRender ==
    \E N \in 1..MaxNodes : \E pa \in Shapes(N) : \E kinds \in [1..N -> RenderKinds] :
    \E TJ \in TemplateOptions :
        Setup(N, pa, kinds, TJ[1], TJ[2], NoYaml)

InitYaml ==
    \E N \in 1..MaxYamlNodes : \E pa \in Shapes(N) : \E kinds \in [1..N -> YamlKinds] :
    \E Y \in [Dirs -> YamlDirOptions] :
        Setup(N, pa, kinds, InlineTeamPlayer, EmptyMap, Y)

Init == InitRender \/ InitYaml

\* JsonNodeBuilder.build: every key of the object but "children" is an
\* attribute, with the value json gave it.
JsonAttributes(data) == data

\* The objects of the documents given to JsonNodeBuilder.
JsonKinds ==
    { <<Pair("name", Str(<<Lit("root")>>)), Pair("value", NonStr(<<Lit("1")>>))>>,
      <<Pair("description", Str(<<Ref("name"), Lit("'s child")>>)),
        Pair("value", NonStr(<<Lit("2")>>))>>,
      <<Pair("first", Str(<<Ref("second")>>)),
        Pair("second", Str(<<Ref("name")>>)),
        Pair("third", Str(<<Ref("second"), Ref("value")>>))>> }

InitJson ==
    \E N \in 1..MaxNodes : \E pa \in Shapes(N) : \E kinds \in [1..N -> JsonKinds] :
        SetupTree(N, pa, [n \in 1..N |-> JsonAttributes(kinds[n])], EmptyMap, EmptyMap, NoYaml)

(***************************************************************************)
(* CompositeNodeVisitor.traverse over NodeVisitor.traverse.                *)
(***************************************************************************)
\* The two visitors composed the other way round.
VisitorsSwapped == <<"yaml", "inline">>

\* NodeGenerator.__init__: the visitors of self.template_visitor, in order.
Visitors == <<"inline", "yaml">>

\* A breadth-first walk: the children of the visited node wait until the
\* nodes that were pending before are visited.
PendingBreadthFirst(n, rest) == rest \o children[n]

\* The traverse calls still to make once node n is visited: one for each
\* child of n in order, then those that were pending before.
Pending(n, rest) == children[n] \o rest

\* NodeVisitor.traverse: visit(node), then traverse each child in order.
Traverse(v, NewAttributes) ==
    /\ phase = "resolve"
    /\ todo # <<>>
    /\ Visitors[vidx] = v
    /\ attributes' = NewAttributes
    /\ todo' = Pending(Head(todo), Tail(todo))
    /\ visitLog' = Append(visitLog, [v |-> v, n |-> Head(todo)])
    /\ UNCHANGED <<treeVars, envVars, renderVars, templates, phase, vidx>>

VisitInline == Traverse("inline", InlineVisit(attributes, parent, Head(todo)))

VisitYaml ==
    /\ phase = "resolve"
    /\ todo # <<>>
    /\ Visitors[vidx] = "yaml"
    /\ ~YamlRaises(attributes, parent, yaml, Head(todo))
    /\ Traverse("yaml", YamlVisit(attributes, parent, yaml, Head(todo)))

\* yaml.safe_load raises in the visit: the error leaves the traversals and
\* NodeGenerator.__init__, no attribute is merged.
VisitYamlRaises ==
    /\ phase = "resolve"
    /\ todo # <<>>
    /\ Visitors[vidx] = "yaml"
    /\ YamlRaises(attributes, parent, yaml, Head(todo))
    /\ phase' = "raised"
    /\ todo' = <<>>
    /\ visitLog' = Append(visitLog, [v |-> "yaml", n |-> Head(todo)])
    /\ UNCHANGED <<treeVars, envVars, renderVars, attributes, templates, vidx>>

\* CompositeNodeVisitor.traverse: the next visitor starts at the root.
NextVisitor ==
    /\ phase = "resolve"
    /\ todo = <<>>
    /\ vidx < Len(Visitors)
    /\ vidx' = vidx + 1
    /\ todo' = <<Root>>
    /\ UNCHANGED <<treeVars, envVars, renderVars, attributes, templates, phase, visitLog>>

\* The rest of NodeGenerator.__init__.
FinishInit ==
    /\ phase = "resolve"
    /\ todo = <<>>
    /\ vidx = Len(Visitors)
    /\ templates' = RegisterVoid(templates)
    /\ phase' = "ready"
    /\ UNCHANGED <<treeVars, envVars, renderVars, attributes, vidx, todo, visitLog>>

(***************************************************************************)
(* NodeGenerator.generate and _render, one step per template part.         *)
(***************************************************************************)
Generate ==
    /\ phase = "ready"
    /\ phase' = "render"
    /\ stack' = <<NewFrame(Root)>>
    /\ UNCHANGED <<treeVars, envVars, attributes, templates, vidx, todo, visitLog,
                   ret, used, writes, files, result, failNode, missed>>

Resolved == ResolveTemplate(templates, j2, TagName(attributes, parent, Top.n))

RenderResolve ==
    /\ phase = "render"
    /\ Top.st = "called"
    /\ Resolved.src # "none"
    /\ stack' = SetTop([Top EXCEPT !.st = "running", !.rest = Resolved.tpl])
    /\ used' = [m \in DOMAIN used \cup {Top.n} |-> IF m = Top.n THEN Resolved ELSE used[m]]
    /\ UNCHANGED <<treeVars, envVars, attributes, templates, phase, vidx, todo, visitLog,
                   ret, writes, files, result, failNode, missed>>

\* A _render whose caller catches TemplateNotFound and goes on with no text
\* for that child.
RenderNotFoundCaught ==
    /\ phase = "render"
    /\ Top.st = "called"
    /\ Resolved.src = "none"
    /\ failNode' = Top.n
    /\ IF Len(stack) = 1
       THEN stack' = <<>> /\ result' = << <<>> >> /\ phase' = "done"
       ELSE stack' = SubSeq(stack, 1, Len(stack) - 1) /\ UNCHANGED <<result, phase>>
    /\ UNCHANGED <<treeVars, envVars, attributes, templates, vidx, todo, visitLog,
                   ret, used, writes, files, missed>>

\* TemplateNotFound leaves every active _render call: none of them has a handler.
RenderNotFound ==
    /\ phase = "render"
    /\ Top.st = "called"
    /\ Resolved.src = "none"
    /\ stack' = <<>>
    /\ phase' = "failed"
    /\ failNode' = Top.n
    /\ UNCHANGED <<treeVars, envVars, attributes, templates, vidx, todo, visitLog,
                   ret, used, writes, files, result, missed>>

RenderText ==
    /\ phase = "render"
    /\ Top.st = "running"
    /\ Top.rest # <<>>
    /\ Head(Top.rest).k \in {"lit", "ref"}
    /\ stack' = SetTop([Top EXCEPT
            !.rest = Tail(@),
            !.out = @ \o RenderString(attributes, parent, Top.n, <<Head(Top.rest)>>)])
    /\ missed' = IF /\ Head(Top.rest).k = "ref"
                    /\ GetAttr(Top.n, Head(Top.rest).v).kind = "error"
                 THEN missed \cup {<<Top.n, Head(Top.rest).v>>}
                 ELSE missed
    /\ UNCHANGED <<treeVars, envVars, attributes, templates, phase, vidx, todo, visitLog,
                   ret, used, writes, files, result, failNode>>

\* {{ render(child) }} for the next child of the loop.
RenderChild ==
    /\ phase = "render"
    /\ Top.st = "running"
    /\ Top.rest # <<>>
    /\ Head(Top.rest).k = "kids"
    /\ Top.ci < Len(LoopChildren(Top.n))
    /\ stack' = Append(SetTop([Top EXCEPT !.ci = @ + 1]),
                       NewFrame(LoopChildren(Top.n)[Top.ci + 1]))
    /\ UNCHANGED <<treeVars, envVars, attributes, templates, phase, vidx, todo, visitLog,
                   ret, used, writes, files, result, failNode, missed>>

RenderEndFor ==
    /\ phase = "render"
    /\ Top.st = "running"
    /\ Top.rest # <<>>
    /\ Head(Top.rest).k = "kids"
    /\ Top.ci >= Len(LoopChildren(Top.n))
    /\ stack' = SetTop([Top EXCEPT !.rest = Tail(@), !.ci = 0])
    /\ UNCHANGED <<treeVars, envVars, attributes, templates, phase, vidx, todo, visitLog,
                   ret, used, writes, files, result, failNode, missed>>

\* A write decided by the lookup that goes through the ancestors.
CoralToInherited(n) ==
    LET r == GetAttr(n, "coral-to")
    IN [has |-> r.kind = "attr", path |-> IF r.kind = "attr" THEN r.val.parts ELSE <<>>]

\* "coral-to" in node.attributes and node.attributes["coral-to"]: the node's
\* own dict is asked, not the node.
CoralTo(n) ==
    [has |-> HasKey(attributes[n], "coral-to"),
     path |-> IF HasKey(attributes[n], "coral-to")
              THEN ValOf(attributes[n], "coral-to").parts ELSE <<>>]

\* The node's own dict decides the write.
WritesFile(n) == CoralTo(n).has

OutputPath(n) == CoralTo(n).path

\* A write that ends the file with a newline the returned text lacks.
WrittenTextNewline(text) == text \o <<Lit("\n")>>

\* The text written for a _render call that returns text.
WrittenText(text) == text

\* The end of _render: the optional write, then return ret.
RenderReturn ==
    /\ phase = "render"
    /\ Top.st = "running"
    /\ Top.rest = <<>>
    /\ IF WritesFile(Top.n)
       THEN /\ files' = WriteText(files, OutputPath(Top.n), WrittenText(Top.out))
            /\ writes' = Append(writes, [n |-> Top.n, path |-> OutputPath(Top.n),
                                         text |-> WrittenText(Top.out)])
       ELSE UNCHANGED <<files, writes>>
    /\ ret' = [m \in DOMAIN ret \cup {Top.n} |-> IF m = Top.n THEN Top.out ELSE ret[m]]
    /\ IF Len(stack) = 1
       THEN /\ stack' = <<>>
            /\ result' = <<Top.out>>
            /\ phase' = "done"
       ELSE /\ stack' = [SubSeq(stack, 1, Len(stack) - 1) EXCEPT
                            ![Len(stack) - 1].out = @ \o Top.out]
            /\ UNCHANGED <<result, phase>>
    /\ UNCHANGED <<treeVars, envVars, attributes, templates, vidx, todo, visitLog,
                   used, failNode, missed>>

Next ==
    \/ VisitInline
    \/ VisitYaml
    \/ VisitYamlRaises
    \/ NextVisitor
    \/ FinishInit
    \/ Generate
    \/ RenderResolve
    \/ RenderNotFound
    \/ RenderText
    \/ RenderChild
    \/ RenderEndFor
    \/ RenderReturn

Spec == Init /\ [][Next]_vars

\* The position of the constructor's traversals.
walkVars == <<phase, vidx, todo>>

\* What a step of the constructor's traversals does to their position: the
\* steps VisitInline, VisitYaml and VisitYamlRaises, NextVisitor, FinishInit,
\* without their effect on the attributes.
WalkStep ==
    /\ phase = "resolve"
    /\ IF todo # <<>>
       THEN IF /\ Visitors[vidx] = "yaml"
               /\ YamlRaises(attributes, parent, yaml, Head(todo))
            THEN phase' = "raised" /\ todo' = <<>> /\ UNCHANGED vidx
            ELSE todo' = Pending(Head(todo), Tail(todo)) /\ UNCHANGED <<phase, vidx>>
       ELSE IF vidx < Len(Visitors)
            THEN vidx' = vidx + 1 /\ todo' = <<Root>> /\ UNCHANGED phase
            ELSE phase' = "ready" /\ UNCHANGED <<vidx, todo>>

(***************************************************************************)
(* The constructor alone, on trees large enough for the pre-order and the  *)
(* breadth-first order to differ.                                          *)
(***************************************************************************)
\* The elements that carry a name.
WalkKinds == {k \in YamlKinds : \E i \in 1..Len(k.attrib) : k.attrib[i].key = "name"}

\* A search path whose first directory holds player.yaml with content c.
YamlInFirstDir(c) ==
    [d \in Dirs |-> IF d = 1 THEN [t \in {"player"} |-> c] ELSE EmptyMap]

InitWalk ==
    \E N \in 1..MaxWalkNodes : \E pa \in Shapes(N) : \E kinds \in [1..N -> WalkKinds] :
    \E Y \in {NoYaml, YamlInFirstDir(YamlA), YamlInFirstDir(YamlB)} :
        Setup(N, pa, kinds, InlineTeamPlayer, EmptyMap, Y)

WalkNext ==
    \/ VisitInline
    \/ VisitYaml
    \/ VisitYamlRaises
    \/ NextVisitor
    \/ FinishInit

\* The constructor is one sequential computation: while its traversals can
\* take a step, they take one (the step may be a visit that raises).
WalkSpec == InitWalk /\ [][WalkNext]_vars /\ WF_walkVars(WalkStep)

(***************************************************************************)
(* One traversal of the inline renderer on its own, as in                  *)
(* NodeAttributesRenderereVisitor(engine).traverse(root), over a tree made *)
(* by either builder.                                                      *)
(***************************************************************************)
InitVisitor == InitJson \/ Init

\* The traversal returns to its caller.
TraverseReturn ==
    /\ phase = "resolve"
    /\ todo = <<>>
    /\ phase' = "visited"
    /\ UNCHANGED <<treeVars, envVars, renderVars, attributes, templates, vidx, todo, visitLog>>

VisitorNext ==
    \/ VisitInline
    \/ TraverseReturn

VisitorSpec == InitVisitor /\ [][VisitorNext]_vars

(***************************************************************************)
(* Notions the properties are stated with.                                 *)
(***************************************************************************)
\* The elements of a sequence.
Range(s) == {s[i] : i \in 1..Len(s)}

\* The descendants of a node, by the children sequences.
RECURSIVE Desc(_)
Desc(n) == Range(children[n]) \cup UNION {Desc(c) : c \in Range(children[n])}

\* a is n or an ancestor of n.
AncOrSelf(a, n) == a = n \/ n \in Desc(a)

\* The keys a lookup may ask for: every attribute name some node of the tree
\* carries, and names that may be carried by none.
LookupKeys ==
    UNION {{attributes[n][i].key : i \in 1..Len(attributes[n])} : n \in Nodes}
    \cup {"name", "age", "zip"}

\* Each node's path to the root: the node and its ancestors.
PathToRoot == [n \in Nodes |-> {a \in Nodes : AncOrSelf(a, n)}]

\* The nodes on the path from n to the root whose own dict has the key.
Definers(n, key) == {a \in PathToRoot[n] : HasKey(attributes[a], key)}

\* The one of a set of nodes on one path that is nearest to the path's start:
\* the one every other is an ancestor of.
NearestOf(D, up) == CHOOSE a \in D : \A b \in D : b \in up[a]

Nearest(n, key) == NearestOf(Definers(n, key), PathToRoot)

\* What the lookup of key on n is said to give, up being each node's path
\* to the root.
SaidLookupIn(up, n, key) ==
    LET D == {a \in up[n] : HasKey(attributes[a], key)}
    IN IF D = {}
       THEN [kind |-> "error", val |-> Str(<<Lit(key)>>)]
       ELSE [kind |-> "attr", val |-> ValOf(attributes[NearestOf(D, up)], key)]

\* C1 as stated: for every node and every key, the lookup gives the node's
\* own value, else the nearest defining ancestor's current value, else it
\* fails with an error naming the key.
C1_LookupEveryKey ==
    LET up == PathToRoot
        keys == LookupKeys
    IN \A n \in Nodes : \A key \in keys : GetAttr(n, key) = SaidLookupIn(up, n, key)

\* Where the lookup does as C1 says: for every key that is not the name of
\* one of the Node object's own fields (attributes, children, parent).
LookupInheritsOtherKeys ==
    LET up == PathToRoot
        keys == LookupKeys \ FieldNames
    IN \A n \in Nodes : \A key \in keys : GetAttr(n, key) = SaidLookupIn(up, n, key)

\* C2 as stated: when a template that was rendered referenced an attribute
\* that no node on the path to the root defines, generate() does not return
\* text.
C2_MissingAttributeFails == missed # {} => phase # "done"

\* The tag of a node during rendering.
Tag(n) == TagName(attributes, parent, n)

\* C3: every node whose template was resolved uses the inline template
\* registered for its tag when there is one, whatever file templates exist,
\* and the file template of its tag only when none is registered.
C3_InlineFirst ==
    \A n \in DOMAIN used :
        IF Tag(n) \in DOMAIN templates
        THEN used[n].src = "inline" /\ used[n].tpl = templates[Tag(n)]
        ELSE used[n].src = "file" /\ Tag(n) \in DOMAIN j2 /\ used[n].tpl = j2[Tag(n)]

\* A node was rendered to its end whose tag has an inline template and a
\* different file template, and another whose tag has a file template only.
C3_Witness ==
    /\ \E n \in DOMAIN ret :
        /\ Tag(n) \in DOMAIN templates \cap DOMAIN j2
        /\ templates[Tag(n)] # j2[Tag(n)]
        /\ used[n].tpl = templates[Tag(n)]
    /\ \E n \in DOMAIN ret : Tag(n) \notin DOMAIN templates /\ used[n].src = "file"

\* The text of the last write to the path of write i.
LastWritten(path) ==
    writes[CHOOSE i \in 1..Len(writes) :
              /\ writes[i].path = path
              /\ \A j \in (i + 1)..Len(writes) : writes[j].path # path].text

\* Every written file holds what was last written to it, and nothing else
\* is on disk.
FilesKeepWrites ==
    /\ DOMAIN files = {writes[i].path : i \in 1..Len(writes)}
    /\ \A p \in DOMAIN files : files[p] = LastWritten(p)

\* C4: once a node's template is found neither inline nor as a file, the
\* whole generate() has failed: it returns no text, no _render call is left
\* running, neither the failing node nor any ancestor of it has returned or
\* written its coral-to file, and the files written before keep their content.
C4_NotFoundAborts ==
    failNode # 0 =>
        /\ phase = "failed"
        /\ result = <<>>
        /\ stack = <<>>
        /\ \A a \in Nodes : AncOrSelf(a, failNode) =>
              /\ a \notin DOMAIN ret
              /\ \A i \in 1..Len(writes) : writes[i].n # a
        /\ FilesKeepWrites

\* The failure is below the root, an ancestor of the failing node carries
\* coral-to, and a file was written before the failure.
C4_Witness ==
    /\ failNode # 0 /\ parent[failNode] # 0
    /\ \E a \in Nodes : a # failNode /\ AncOrSelf(a, failNode) /\ WritesFile(a)
    /\ writes # <<>>
    /\ files[writes[1].path] = ret[writes[1].n]

\* The text a node renders to when no file is ever written: its template,
\* with each loop over the children replaced by the children's texts.
RECURSIVE TextOf(_)
RECURSIVE TextOfAll(_)
RECURSIVE TextOfParts(_, _)
TextOf(n) == TextOfParts(n, ResolveTemplate(templates, j2, Tag(n)).tpl)

TextOfAll(s) == IF s = <<>> THEN <<>> ELSE TextOf(Head(s)) \o TextOfAll(Tail(s))

TextOfParts(n, t) ==
    IF t = <<>> THEN <<>>
    ELSE (IF Head(t).k = "kids" THEN TextOfAll(children[n])
          ELSE RenderString(attributes, parent, n, <<Head(t)>>))
         \o TextOfParts(n, Tail(t))

\* The texts returned for the nodes of a sequence, concatenated.
RECURSIVE ConcatRet(_)
ConcatRet(s) == IF s = <<>> THEN <<>> ELSE ret[Head(s)] \o ConcatRet(Tail(s))

\* C5: every write is made for a node carrying coral-to, to the path that is
\* the value of its coral-to, with exactly the text its _render returned;
\* every returned node carrying coral-to has written; the returned text is
\* the text the node renders to when no file is written; and a file not
\* written again later holds the text its node returned.
C5_WriteIsReturn ==
    /\ \A i \in 1..Len(writes) :
          /\ writes[i].n \in DOMAIN ret
          /\ HasKey(attributes[writes[i].n], "coral-to")
          /\ writes[i].path = ValOf(attributes[writes[i].n], "coral-to").parts
          /\ writes[i].text = ret[writes[i].n]
          /\ (\A j \in (i + 1)..Len(writes) : writes[j].path # writes[i].path)
                => files[writes[i].path] = ret[writes[i].n]
    /\ \A n \in DOMAIN ret :
          /\ ret[n] = TextOf(n)
          /\ HasKey(attributes[n], "coral-to") => \E i \in 1..Len(writes) : writes[i].n = n

\* generate() returned for a void root with two children carrying coral-to
\* with different paths: the result is both texts, each file holds its own.
C5_Witness ==
    /\ phase = "done"
    /\ Tag(Root) = "void"
    /\ Len(children[Root]) = 2
    /\ LET a == children[Root][1]
           b == children[Root][2]
       IN /\ WritesFile(a) /\ WritesFile(b)
          /\ OutputPath(a) # OutputPath(b)
          /\ ret[a] # ret[b]
          /\ files[OutputPath(a)] = ret[a]
          /\ files[OutputPath(b)] = ret[b]
          /\ result = <<ret[a] \o ret[b]>>

\* C6: from the end of the constructor on the built-in template is the one
\* registered for void; a void node's rendering never fails for lack of a
\* template, and it returns the texts returned for its children, in child
\* order, with nothing between (the empty text when it has no child).
C6_VoidConcatenates ==
    /\ phase \notin {"resolve", "raised"} =>
          "void" \in DOMAIN templates /\ templates["void"] = VoidTemplate
    /\ failNode # 0 => Tag(failNode) # "void"
    /\ \A n \in DOMAIN ret : Tag(n) = "void" =>
          /\ \A c \in Range(children[n]) : c \in DOMAIN ret
          /\ ret[n] = ConcatRet(children[n])

\* The caller registered its own void template and a void.j2 exists; a void
\* node holding a void node holding a node with text has returned.
C6_Witness ==
    /\ "void" \in DOMAIN j2 /\ j2["void"] # VoidTemplate
    /\ "void" \in DOMAIN given /\ given["void"] # VoidTemplate
    /\ \E n \in DOMAIN ret : \E c \in Range(children[n]) :
          /\ Tag(n) = "void" /\ Tag(c) = "void"
          /\ children[c] # <<>>
          /\ ret[n] # <<>>
          /\ ret[n] = ret[c]

\* This step is a visit of the attribute file visitor, to the node Head(todo).
YamlStep ==
    /\ phase = "resolve"
    /\ Visitors[vidx] = "yaml"
    /\ todo # <<>>
    /\ visitLog' = Append(visitLog, [v |-> "yaml", n |-> Head(todo)])

\* The own keys of an attribute list, and the keys a file's mappings define.
KeysIn(al) == {al[i].key : i \in 1..Len(al)}

FileKeys(content) == UNION {KeysIn(content[i]) : i \in 1..Len(content)}

\* The directories holding the file of a tag, and the first of them.
Holding(tag) == {d \in Dirs : tag \in DOMAIN yaml[d]}

FirstHolding(tag) == CHOOSE d \in Holding(tag) : \A e \in Holding(tag) : d <= e

\* C7: a visit of the attribute file visitor changes no other node; when no
\* directory holds {tag}.yaml the node is unchanged and the visit ends
\* normally; otherwise every key the first holding directory's file defines
\* is set when that file parses, and every key that file does not define (so
\* every key only a later directory's file defines) is neither added,
\* removed nor changed, also when the first file has no mappings or does
\* not parse.
C7_FirstDirOnly ==
    [][YamlStep =>
        LET n == Head(todo)
            tag == Tag(n)
        IN /\ \A m \in Nodes \ {n} : attributes'[m] = attributes[m]
           /\ Holding(tag) = {} => attributes'[n] = attributes[n] /\ phase' = "resolve"
           /\ Holding(tag) # {} =>
                LET F == FileKeys(yaml[FirstHolding(tag)][tag])
                IN /\ phase' # "raised" => \A key \in F : HasKey(attributes'[n], key)
                   /\ KeysIn(attributes[n]) \subseteq KeysIn(attributes'[n])
                   /\ \A key \in KeysIn(attributes'[n]) \ F :
                         /\ HasKey(attributes[n], key)
                         /\ ValOf(attributes'[n], key) = ValOf(attributes[n], key)
                   /\ yaml[FirstHolding(tag)][tag] = <<>> => attributes'[n] = attributes[n]
    ]_vars

\* The nodes the attribute file visitor has visited.
YamlVisited == {visitLog[i].n : i \in {j \in 1..Len(visitLog) : visitLog[j].v = "yaml"}}

\* A visited node whose tag has different files in the first two
\* directories: it got the first file's age and nothing of the second's.
C7_Witness ==
    \E n \in YamlVisited :
        /\ {1, 2} \subseteq Holding(Tag(n))
        /\ yaml[1][Tag(n)] = YamlA
        /\ yaml[2][Tag(n)] = YamlB
        /\ HasKey(attributes[n], "age")
        /\ ValOf(attributes[n], "age") = NonStr(<<Lit("37")>>)
        /\ ~HasKey(attributes[n], "city")

\* The value template of a key in a mapping that defines it.
TemplateOf(m, key) == m[CHOOSE j \in 1..Len(m) : m[j].key = key].val

\* C8: when a file matches and its rendering parses, every key that some
\* mapping defines ends with the value of the last mapping defining it, that
\* value being the mapping's text rendered against the node as it was
\* before the merge and then parsed; every other attribute of the node
\* keeps its value.
C8_MergeInOrder ==
    [][(YamlStep /\ phase' # "raised" /\ Holding(Tag(Head(todo))) # {}) =>
        LET n == Head(todo)
            content == yaml[FirstHolding(Tag(n))][Tag(n)]
        IN \A key \in KeysIn(attributes[n]) \cup FileKeys(content) :
              LET defining == {i \in 1..Len(content) : key \in KeysIn(content[i])}
                  last == CHOOSE i \in defining : \A j \in defining : j <= i
              IN /\ HasKey(attributes'[n], key)
                 /\ ValOf(attributes'[n], key) =
                        IF defining = {} THEN ValOf(attributes[n], key)
                        ELSE YamlScalar(RenderString(attributes, parent, n,
                                                     TemplateOf(content[last], key)))
    ]_vars

\* A visited node matched by the two-mapping file: its age, a str before, is
\* the int the second mapping rendered from the old age, not the first
\* mapping's 200; its nick was replaced, city was added, tag was kept.
C8_Witness ==
    \E n \in YamlVisited :
        /\ Holding(Tag(n)) # {}
        /\ yaml[FirstHolding(Tag(n))][Tag(n)] = YamlB
        /\ HasKey(built[n], "age") /\ ValOf(built[n], "age") = Str(<<Lit("5")>>)
        /\ ValOf(attributes[n], "age") = NonStr(<<Lit("5")>>)
        /\ HasKey(built[n], "nick")
        /\ ValOf(attributes[n], "nick").parts[Len(ValOf(attributes[n], "nick").parts)] = Lit("?")
        /\ ~HasKey(built[n], "city") /\ HasKey(attributes[n], "city")
        /\ ValOf(attributes[n], "tag") = ValOf(built[n], "tag")

\* C9: no visit of the inline renderer follows a visit of the attribute
\* file visitor, and before the attribute file visitor's first visit the
\* inline renderer has visited every node of the tree.
C9_InlineBeforeYaml ==
    \A i \in 1..Len(visitLog) : visitLog[i].v = "yaml" =>
        /\ \A j \in (i + 1)..Len(visitLog) : visitLog[j].v = "yaml"
        /\ \A n \in Nodes : \E j \in 1..(i - 1) : visitLog[j] = [v |-> "inline", n |-> n]

\* Both visitors went over a tree of several nodes, and a node's attribute
\* file used an attribute whose template the inline renderer had resolved.
C9_Witness ==
    /\ Cardinality(Nodes) >= 2
    /\ Len(visitLog) = 2 * Cardinality(Nodes)
    /\ \E n \in YamlVisited :
          /\ HasKey(built[n], "nick") /\ HasKey(attributes[n], "city")
          /\ \E i \in 1..Len(ValOf(built[n], "nick").parts) :
                ValOf(built[n], "nick").parts[i].k = "ref"
          /\ \A i \in 1..Len(ValOf(attributes[n], "city").parts) :
                ValOf(attributes[n], "city").parts[i].k = "lit"
          /\ Len(ValOf(attributes[n], "city").parts) >= 2

\* The nodes in document order, and in the order in which their subtrees end.
RECURSIVE PreOrder(_)
RECURSIVE PreOrderAll(_)
PreOrder(n) == <<n>> \o PreOrderAll(children[n])

PreOrderAll(s) == IF s = <<>> THEN <<>> ELSE PreOrder(Head(s)) \o PreOrderAll(Tail(s))

Pos(s, x) == CHOOSE i \in 1..Len(s) : s[i] = x

\* Every template used so far loops over its node's children.
AllTemplatesLoop ==
    \A n \in DOMAIN used : \E i \in 1..Len(used[n].tpl) : used[n].tpl[i].k = "kids"

\* C10 as stated: when every template renders its node's children, the
\* writes occur in pre-order: a node's write before those of its
\* descendants, siblings' writes in child order.
C10_PreOrderWrites ==
    AllTemplatesLoop =>
        \A i \in 1..Len(writes) : \A j \in (i + 1)..Len(writes) :
            Pos(PreOrder(Root), writes[i].n) < Pos(PreOrder(Root), writes[j].n)

\* C10 amended: when every template renders its node's children, the writes
\* occur in post-order: a node's write after those of all its descendants,
\* and the writes of nodes of which neither is an ancestor of the other (so
\* of siblings) in document order.
C10_PostOrderWrites ==
    AllTemplatesLoop =>
        \A i \in 1..Len(writes) : \A j \in (i + 1)..Len(writes) :
            LET a == writes[i].n
                b == writes[j].n
            IN /\ a # b
               /\ b \notin Desc(a)
               /\ a \notin Desc(b) =>
                    Pos(PreOrder(Root), a) < Pos(PreOrder(Root), b)

\* A root carrying coral-to with two children carrying it: all three wrote.
C10_Witness ==
    /\ AllTemplatesLoop
    /\ phase = "done"
    /\ Len(children[Root]) = 2
    /\ Len(writes) = 3
    /\ writes[1].n = children[Root][1]
    /\ writes[2].n = children[Root][2]
    /\ writes[3].n = Root

\* t occurs in s as a contiguous piece.
Contains(s, t) == \E i \in 0..(Len(s) - Len(t)) : SubSeq(s, i + 1, i + Len(t)) = t

\* The index of the write made for node n (a node writes at most once).
WriteOf(n) == CHOOSE i \in 1..Len(writes) : writes[i].n = n

\* Two children of one node, the first before the second in child order, that
\* both carry coral-to with the same path and have both returned.
Colliding(a, b) ==
    /\ parent[a] # 0 /\ parent[a] = parent[b]
    /\ Pos(children[parent[a]], a) < Pos(children[parent[a]], b)
    /\ a \in DOMAIN ret /\ b \in DOMAIN ret
    /\ WritesFile(a) /\ WritesFile(b)
    /\ OutputPath(a) = OutputPath(b)

\* C11 as stated: once generate() has returned, the file two colliding
\* siblings wrote holds the text of the sibling rendered last.
C11_LastSiblingWins ==
    phase = "done" =>
        \A a \in Nodes : \A b \in Nodes :
            Colliding(a, b) => files[OutputPath(b)] = ret[b]

\* C11 amended: when two siblings that both carry coral-to with the same
\* path have returned, the collision has raised no error (both have written,
\* the earlier sibling first, and rendering has not failed because of it);
\* the file holds the text of the last write made to that path, which is
\* the later sibling's text as long as no other node (such as the siblings'
\* parent, which writes after them) has written to the path since; and once
\* generate() has returned, its text contains the texts of the siblings
\* from the earlier to the later one, in child order.
C11_LastWriteWins ==
    \A p \in Nodes : \A i \in 1..Len(children[p]) : \A j \in (i + 1)..Len(children[p]) :
        LET a == children[p][i]
            b == children[p][j]
        IN (/\ a \in DOMAIN ret /\ b \in DOMAIN ret
            /\ WritesFile(a) /\ WritesFile(b)
            /\ OutputPath(a) = OutputPath(b)) =>
              /\ \E k \in 1..Len(writes) : writes[k].n = a
              /\ \E k \in 1..Len(writes) : writes[k].n = b
              /\ WriteOf(a) < WriteOf(b)
              /\ writes[WriteOf(b)].text = ret[b]
              /\ phase = "failed" => failNode \notin {a, b}
              /\ files[OutputPath(b)] = LastWritten(OutputPath(b))
              /\ (\A k \in (WriteOf(b) + 1)..Len(writes) : writes[k].path # OutputPath(b))
                    => files[OutputPath(b)] = ret[b]
              /\ phase = "done" =>
                    Contains(result[1], ConcatRet(SubSeq(children[p], i, j)))

\* generate() returned for a void root whose two children carry the same
\* path and returned different texts: the file holds the second child's
\* text and the result is both texts.
C11_Witness ==
    /\ phase = "done"
    /\ Tag(Root) = "void"
    /\ Len(children[Root]) = 2
    /\ LET a == children[Root][1]
           b == children[Root][2]
       IN /\ WritesFile(a) /\ WritesFile(b)
          /\ OutputPath(a) = OutputPath(b)
          /\ ret[a] # ret[b]
          /\ ret[a] # <<>> /\ ret[b] # <<>>
          /\ Colliding(a, b)
          /\ files[OutputPath(b)] = ret[b]
          /\ files[OutputPath(b)] # ret[a]
          /\ result = <<ret[a] \o ret[b]>>

\* The nodes a visitor has visited so far, in the order of the visits.
RECURSIVE VisitedFrom(_, _)
VisitedFrom(v, i) ==
    IF i > Len(visitLog) THEN <<>>
    ELSE (IF visitLog[i].v = v THEN <<visitLog[i].n>> ELSE <<>>) \o VisitedFrom(v, i + 1)

VisitedBy(v) == VisitedFrom(v, 1)

\* s is a beginning of t.
IsPrefix(s, t) == Len(s) <= Len(t) /\ SubSeq(t, 1, Len(s)) = s

\* The walk of a visitor, as far as it has come, is the beginning of the
\* pre-order sequence of the tree.
WalkInOrder == \A v \in Range(Visitors) : IsPrefix(VisitedBy(v), PreOrder(Root))

\* A walk s is a full pre-order walk: every node occurs exactly once, before
\* each of its descendants, and an earlier child with its whole subtree
\* before a later child of the same node.
FullPreOrderWalk(s) ==
    /\ \A n \in Nodes : Cardinality({i \in 1..Len(s) : s[i] = n}) = 1
    /\ \A n \in Nodes : \A d \in Desc(n) : Pos(s, n) < Pos(s, d)
    /\ \A p \in Nodes : \A i \in 1..Len(children[p]) : \A j \in (i + 1)..Len(children[p]) :
          \A x \in {children[p][i]} \cup Desc(children[p][i]) : Pos(s, x) < Pos(s, children[p][j])

\* Every traversal of the constructor has returned, each a full pre-order walk.
WalksComplete ==
    /\ phase \notin {"resolve", "raised"}
    /\ \A v \in Range(Visitors) : FullPreOrderWalk(VisitedBy(v))

\* C12: each traversal visits the nodes in pre-order as far as it has come,
\* and every traversal ends: the first visitor's, whose visits all return,
\* having visited every node exactly once, each node before its descendants
\* and the children with their subtrees from left to right, and so the
\* second visitor's unless one of its visits raised.
C12_PreOrderWalk ==
    /\ [](WalkInOrder /\ (phase \notin {"resolve", "raised"} => WalksComplete))
    /\ <>FullPreOrderWalk(VisitedBy(Visitors[1]))
    /\ <>(WalksComplete \/ phase = "raised")

\* Both traversals have ended on a root with two children of which the
\* first has a child: that grandchild was visited before the second child,
\* though it is the deeper node and was built after it.
C12_Witness ==
    /\ WalksComplete
    /\ Cardinality(Nodes) = 4
    /\ Len(children[Root]) = 2
    /\ Len(children[children[Root][1]]) = 1
    /\ LET a == children[Root][1]
           b == children[Root][2]
           g == children[a][1]
       IN /\ g > b
          /\ VisitedBy("inline") = <<Root, a, g, b>>
          /\ VisitedBy("yaml") = <<Root, a, g, b>>
          /\ HasKey(attributes[g], "age")

\* This step is a visit of the inline renderer, to the node Head(todo).
InlineStep ==
    /\ phase = "resolve"
    /\ Visitors[vidx] = "inline"
    /\ todo # <<>>
    /\ visitLog' = Append(visitLog, [v |-> "inline", n |-> Head(todo)])

\* The tree as the rendering of attribute i of node n sees it during a visit
\* that leaves n with the attribute list after: the attributes before i
\* already replaced, the others as they were.
SeenAt(n, i, after) ==
    [attributes EXCEPT ![n] =
        [k \in 1..Len(attributes[n]) |-> IF k < i THEN after[k] ELSE attributes[n][k]]]

\* C13: a visit of the inline renderer changes no other node and keeps the
\* node's keys and their order; a value that is not a str is kept; a str
\* value becomes the str that one rendering of it gives, against the node
\* as it is at that moment (lookups go through the ancestors), and that
\* result is not rendered again, within the visit or by a second visit.
C13_InlineRendersOnce ==
    /\ [][InlineStep =>
            LET n == Head(todo)
            IN /\ \A m \in Nodes \ {n} : attributes'[m] = attributes[m]
               /\ Len(attributes'[n]) = Len(attributes[n])
               /\ \A i \in 1..Len(attributes[n]) :
                     LET old == attributes[n][i]
                         new == attributes'[n][i]
                     IN /\ new.key = old.key
                        /\ ~old.val.str => new.val = old.val
                        /\ old.val.str =>
                              new.val = Str(RenderString(SeenAt(n, i, attributes'[n]),
                                                         parent, n, old.val.parts))
       ]_vars
    /\ [](\A n \in Nodes :
            Cardinality({i \in 1..Len(visitLog) : visitLog[i] = [v |-> "inline", n |-> n]}) <= 1)

\* The traversal has returned on a tree where a node lacks name and so does
\* its parent: its attribute second is the grandparent's name, its attribute
\* first is the text second had before, still with its expression, its
\* attribute third ends with the parent's number, and the numbers are still
\* numbers.
C13_Witness ==
    /\ phase = "visited"
    /\ \E n \in Nodes :
          /\ parent[n] # 0 /\ parent[parent[n]] # 0
          /\ ~HasKey(attributes[n], "name") /\ ~HasKey(attributes[parent[n]], "name")
          /\ HasKey(attributes[parent[parent[n]]], "name")
          /\ HasKey(built[n], "first") /\ HasKey(built[parent[n]], "description")
          /\ ValOf(built[n], "first") = Str(<<Ref("second")>>)
          /\ ValOf(attributes[n], "first") = Str(<<Ref("name")>>)
          /\ ValOf(attributes[n], "second") = Str(<<Lit("root")>>)
          /\ ValOf(attributes[n], "third") = Str(<<Lit("root"), Lit("2")>>)
          /\ ValOf(attributes[parent[n]], "value") = NonStr(<<Lit("2")>>)
          /\ ValOf(attributes[parent[n]], "description") = Str(<<Lit("root"), Lit("'s child")>>)

\* The parent references agree with the children sequences: every child of
\* a node has that node as its parent, the root has none, and every other
\* node is a child of its parent.
ShapeConsistent ==
    /\ parent[Root] = 0
    /\ \A n \in Nodes : \A c \in Range(children[n]) : parent[c] = n
    /\ \A c \in Nodes \ {Root} : parent[c] \in Nodes /\ c \in Range(children[parent[c]])

\* This step belongs to generate(): it starts the rendering or is part of it.
RenderingStep == phase \in {"ready", "render"} /\ phase' \in {"render", "done", "failed"}

\* C14: in every state the parent references agree with the children
\* sequences; no step of the resolution passes or of the rendering changes a
\* children sequence or a parent reference; and no step of generate()
\* changes an attribute of any node.
C14_ShapeFixed ==
    /\ []ShapeConsistent
    /\ [][children' = children /\ parent' = parent]_vars
    /\ [][RenderingStep => attributes' = attributes]_vars

\* generate() returned for a chain of three nodes, after the resolution
\* passes changed an attribute and a file was written.
C14_Witness ==
    /\ phase = "done"
    /\ Cardinality(Nodes) = 3
    /\ \E n \in Nodes : parent[n] # 0 /\ parent[parent[n]] = Root
    /\ \E n \in Nodes : attributes[n] # built[n]
    /\ Len(visitLog) = 2 * Cardinality(Nodes)
    /\ writes # <<>>

\* The nodes for which a file was written.
Writers == {writes[i].n : i \in 1..Len(writes)}

\* C15: every write is made for a node whose own dict has coral-to; a node
\* whose _render has returned has written exactly if its own dict has
\* coral-to; so a returned node without coral-to of its own below a node
\* that has it has written nothing, while the lookup of coral-to on it
\* gives the value of the nearest ancestor that has it.
C15_OwnCoralToOnly ==
    LET up == PathToRoot
    IN /\ \A n \in Writers : HasKey(attributes[n], "coral-to")
       /\ \A n \in DOMAIN ret : (n \in Writers) <=> HasKey(attributes[n], "coral-to")
       /\ \A n \in DOMAIN ret :
             (/\ ~HasKey(attributes[n], "coral-to")
              /\ \E a \in up[n] : HasKey(attributes[a], "coral-to")) =>
                /\ n \notin Writers
                /\ GetAttr(n, "coral-to") = SaidLookupIn(up, n, "coral-to")
                /\ GetAttr(n, "coral-to").kind = "attr"

\* generate() returned; a node without coral-to of its own, below a node
\* that has it and has written, returned text: it wrote nothing, and the
\* lookup of coral-to on it gives the parent's path.
C15_Witness ==
    /\ phase = "done"
    /\ \E n \in DOMAIN ret :
          /\ parent[n] # 0
          /\ ~HasKey(attributes[n], "coral-to")
          /\ HasKey(attributes[parent[n]], "coral-to")
          /\ parent[n] \in Writers
          /\ n \notin Writers
          /\ ret[n] # <<>>
          /\ GetAttr(n, "coral-to").kind = "attr"
          /\ GetAttr(n, "coral-to").val.parts = OutputPath(parent[n])
          /\ OutputPath(parent[n]) \in DOMAIN files

====
